---- MODULE Spec2Model ----
(***************************************************************************)
(* Model of src/main.mts: the PancakeSwap v2 pool tag service.             *)
(*                                                                         *)
(* returnTags(chainId, apiKey) resolves the subgraph URL of the chain and  *)
(* then sweeps the subgraph page by page (fetchData), turning every page   *)
(* into contract tags (transformPairsToTags) until a page is not full.     *)
(*                                                                         *)
(* JavaScript strings whose characters matter (token names and symbols,    *)
(* chain identifiers, the API key) are sequences of one-character strings. *)
(* Template strings are tuples of their parts.                             *)
(***************************************************************************)
EXTENDS Integers, Sequences, FiniteSets, TLC

VARIABLES
    chainId,        \* argument of returnTags
    apiKey,         \* argument of returnTags
    pc,             \* position of the returnTags call
    url,            \* const url (line 209)
    lastTimestamp,  \* let lastTimestamp (line 205)
    allTags,        \* let allTags (line 206)
    isMore,         \* let isMore (line 207)
    calls,          \* log of the requests sent by fetchData, in order
    responses,      \* log of the answers the requests received, in order
    result,         \* what the promise returned by returnTags settled with
    db,             \* the pairs held by the subgraph, in its answer order
    text,           \* argument of a containsInvalidValue call
    verdict         \* what that call returned

vars == <<chainId, apiKey, pc, url, lastTimestamp, allTags, isMore, calls,
          responses, result, db, text, verdict>>

(***************************************************************************)
(* Bounds of the model.                                                    *)
(***************************************************************************)
\* Most fetchData calls followed within one returnTags call.
MaxCalls == 3
\* Largest timestamp of a pair held by the subgraph.
MaxTs == 3
\* Longest text enumerated for containsInvalidValue.
MaxTextLen == 3

\* The page size: `first: 1000` of the query and `pairs.length === 1000` of
\* the loop are the same number; the model runs it scaled down to 2.
PageSize == 2

\* const maxSymbolsLength = 45
maxSymbolsLength == 45

(***************************************************************************)
(* Sequence helpers.                                                       *)
(***************************************************************************)
Last(s) == s[Len(s)]

RECURSIVE Flatten(_)
Flatten(ss) == IF ss = <<>> THEN <<>> ELSE Head(ss) \o Flatten(Tail(ss))

\* All sequences over S of length 0..n.
SeqsUpTo(S, n) == UNION {[1..k -> S] : k \in 0..n}

(***************************************************************************)
(* Number <-> string conversions of JavaScript, on naturals.               *)
(***************************************************************************)
Digits == <<"0", "1", "2", "3", "4", "5", "6", "7", "8", "9">>

DigitChars == {Digits[i] : i \in 1..10}

DigitValue(c) == (CHOOSE i \in 1..10 : Digits[i] = c) - 1

\* Number.prototype.toString() of a natural: its decimal digits.
RECURSIVE toString(_)
toString(n) ==
    IF n < 10 THEN <<Digits[n + 1]>>
    ELSE Append(toString(n \div 10), Digits[(n % 10) + 1])

RECURSIVE ParseDigits(_, _)
ParseDigits(s, acc) ==
    IF s = <<>> \/ Head(s) \notin DigitChars THEN acc
    ELSE ParseDigits(Tail(s), 10 * acc + DigitValue(Head(s)))

\* parseInt(s, 10) of a string that starts with a digit: the value of the
\* longest prefix of digits.
parseInt(s) == ParseDigits(s, 0)

(***************************************************************************)
(* containsInvalidValue (lines 97-101).                                    *)
(***************************************************************************)
\* Characters String.prototype.trim() strips (those the model's texts use).
WhiteSpace == {" ", "\t", "\n"}

RECURSIVE trimStart(_)
trimStart(s) ==
    IF s # <<>> /\ Head(s) \in WhiteSpace THEN trimStart(Tail(s)) ELSE s

RECURSIVE trimEnd(_)
trimEnd(s) ==
    IF s # <<>> /\ Last(s) \in WhiteSpace
    THEN trimEnd(SubSeq(s, 1, Len(s) - 1))
    ELSE s

trim(s) == trimEnd(trimStart(s))

\* [^>]*> anchored at position k of s.
RECURSIVE MatchNotGtStarGt(_, _)
MatchNotGtStarGt(s, k) ==
    /\ k <= Len(s)
    /\ \/ s[k] = ">"
       \/ s[k] # ">" /\ MatchNotGtStarGt(s, k + 1)

\* Mutant: the pattern /</, which needs no closing ">".
HtmlRegexTestOpenOnly(s) == \E i \in 1..Len(s) : s[i] = "<"

\* /<[^>]*>/.test(s): the pattern is tried at every position.
HtmlRegexTest(s) ==
    \E i \in 1..Len(s) : s[i] = "<" /\ MatchNotGtStarGt(s, i + 1)

containsInvalidValue(t) ==
    LET containsHtml == HtmlRegexTest(t)
        isEmpty == trim(t) = <<>>
    IN  isEmpty \/ containsHtml

(***************************************************************************)
(* truncateString (lines 103-108).                                         *)
(***************************************************************************)
truncateString(t, maxLength) ==
    IF Len(t) > maxLength
    THEN SubSeq(t, 1, maxLength - 3) \o <<".", ".", ".">>
    ELSE t

(***************************************************************************)
(* SUBGRAPH_URLS and prepareUrl (lines 4-35, 142-151).                     *)
(***************************************************************************)
ApiKeyPlaceholder == "[api-key]"

Template(subgraphId) ==
    [decentralized |->
        <<"https://gateway.thegraph.com/api/", ApiKeyPlaceholder,
          "/subgraphs/id/", subgraphId>>]

SUBGRAPH_URLS ==
    (<<"1">> :> Template("9opY17WnEPD4REcC43yHycQthSeUMQE26wyoeMjZTLEx")) @@
    (<<"3", "2", "4">> :>
        Template("6dU6WwEz22YacyzbTbSa3CECCmaD8G7oQ8aw6MYd5VKU")) @@
    (<<"1", "1", "0", "1">> :>
        Template("37WmH5kBu6QQytRpMwLJMGPRbXvHgpuZsWqswW4Finc2")) @@
    (<<"8", "4", "5", "3">> :>
        Template("2NjL7L4CmQaGJSacM43ofmH6ARf6gJoBeBaJtz9eWAQ9")) @@
    (<<"4", "2", "1", "6", "1">> :>
        Template("EsL7geTRcA3LaLLM9EcMFzYbUgnvf8RixoEEGErrodB3")) @@
    (<<"5", "9", "1", "4", "4">> :>
        Template("Eti2Z5zVEdARnuUzjCbv4qcimTLysAizsqH3s6cBfPjB"))

\* Property names every object literal inherits from Object.prototype (the
\* one the model's inputs use): SUBGRAPH_URLS["constructor"] is a function.
ObjectPrototypeKeys == {<<"c", "o", "n", "s", "t", "r", "u", "c", "t", "o", "r">>}

\* SUBGRAPH_URLS[key]: an own property, an inherited one, or undefined.
PropertyLookup(key) ==
    IF key \in DOMAIN SUBGRAPH_URLS
    THEN [truthy |-> TRUE, own |-> TRUE,
          decentralized |-> SUBGRAPH_URLS[key].decentralized]
    ELSE [truthy |-> key \in ObjectPrototypeKeys, own |-> FALSE,
          decentralized |-> <<>>]

\* isNaN(Number(s)) for a string: Number trims, reads "" as 0 and a run of
\* decimal digits as its value; every other string of the model is NaN.
NumberIsNaN(s) == \E i \in 1..Len(trim(s)) : trim(s)[i] \notin DigitChars

\* Object.keys of an object with integer-like keys: ascending numeric order.
RECURSIVE KeysAscending(_)
KeysAscending(S) ==
    IF S = {} THEN <<>>
    ELSE LET least == CHOOSE k \in S :
                          \A other \in S : parseInt(k) <= parseInt(other)
         IN  <<least>> \o KeysAscending(S \ {least})

ObjectKeys == KeysAscending(DOMAIN SUBGRAPH_URLS)

\* Array.prototype.join of an array of strings.
RECURSIVE Join(_, _)
Join(items, sep) ==
    IF items = <<>> THEN <<>>
    ELSE IF Len(items) = 1 THEN Head(items)
    ELSE Head(items) \o sep \o Join(Tail(items), sep)

\* encodeURIComponent: the unreserved characters stay, the others are
\* percent-encoded (the escapes of the characters the model's keys use).
PercentEncoded == ("/" :> <<"%", "2", "F">>) @@ (" " :> <<"%", "2", "0">>)

RECURSIVE encodeURIComponent(_)
encodeURIComponent(s) ==
    IF s = <<>> THEN <<>>
    ELSE (IF Head(s) \in DOMAIN PercentEncoded
          THEN PercentEncoded[Head(s)]
          ELSE <<Head(s)>>) \o encodeURIComponent(Tail(s))

\* String.prototype.replace(pattern, replacement) with a string pattern:
\* the first occurrence only.
RECURSIVE replace(_, _, _)
replace(parts, pattern, replacement) ==
    IF parts = <<>> THEN <<>>
    ELSE IF Head(parts) = pattern THEN <<replacement>> \o Tail(parts)
    ELSE <<Head(parts)>> \o replace(Tail(parts), pattern, replacement)

\* An Error object: `${error}` is `${name}: ${message}`.
Error(message) == [name |-> "Error", message |-> message]

TypeError(message) == [name |-> "TypeError", message |-> message]

NoError == [name |-> "", message |-> <<>>]

UnsupportedChainMessage == "Unsupported or invalid Chain ID provided: "

\* Mutant: `if (!urls)`, without the isNaN test.
prepareUrlWithoutNaNTest(id, key) ==
    LET urls == PropertyLookup(id)
    IN  IF ~urls.truthy
        THEN [ok |-> FALSE, url |-> <<>>,
              error |-> Error(<<UnsupportedChainMessage, id,
                  ". Only the following values are accepted: ",
                  Join(ObjectKeys, <<",", " ">>)>>)]
        ELSE IF ~urls.own
        THEN [ok |-> FALSE, url |-> <<>>,
              error |-> TypeError(<<"Cannot read properties of undefined">>)]
        ELSE [ok |-> TRUE,
              url |-> replace(urls.decentralized, ApiKeyPlaceholder,
                              encodeURIComponent(key)),
              error |-> NoError]

\* The function returns the URL or throws.
prepareUrl(id, key) ==
    LET urls == PropertyLookup(id)
    IN  IF ~urls.truthy \/ NumberIsNaN(id)
        THEN LET supportedChainIds == Join(ObjectKeys, <<",", " ">>)
             IN  [ok |-> FALSE, url |-> <<>>,
                  error |-> Error(<<UnsupportedChainMessage, id,
                      ". Only the following values are accepted: ",
                      supportedChainIds>>)]
        ELSE IF ~urls.own
        THEN \* urls.decentralized is undefined: calling replace on it throws
             [ok |-> FALSE, url |-> <<>>,
              error |-> TypeError(<<"Cannot read properties of undefined">>)]
        ELSE [ok |-> TRUE,
              url |-> replace(urls.decentralized, ApiKeyPlaceholder,
                              encodeURIComponent(key)),
              error |-> NoError]

(***************************************************************************)
(* Pairs and the answers a request can receive (lines 37-57).              *)
(***************************************************************************)
PoolToken(id, name, symbol) == [id |-> id, name |-> name, symbol |-> symbol]

Pair(id, timestamp, token0, token1) ==
    [id |-> id, timestamp |-> timestamp, token0 |-> token0, token1 |-> token1]

\* The promise of fetch() rejected (the request did not complete).
NetworkFailure ==
    [fetched |-> FALSE, ok |-> FALSE, status |-> 0, json |-> FALSE,
     hasErrors |-> FALSE, errors |-> <<>>, hasData |-> FALSE,
     hasPairs |-> FALSE, pairs |-> <<>>]

\* A response whose status is not 2xx.
HttpFailure(status) ==
    [fetched |-> TRUE, ok |-> FALSE, status |-> status, json |-> FALSE,
     hasErrors |-> FALSE, errors |-> <<>>, hasData |-> FALSE,
     hasPairs |-> FALSE, pairs |-> <<>>]

\* A 200 response whose body is not JSON: response.json() rejects.
InvalidJson ==
    [fetched |-> TRUE, ok |-> TRUE, status |-> 200, json |-> FALSE,
     hasErrors |-> FALSE, errors |-> <<>>, hasData |-> FALSE,
     hasPairs |-> FALSE, pairs |-> <<>>]

\* A 200 response with a GraphQLResponse body.
Body(hasErrors, errors, hasData, hasPairs, pairs) ==
    [fetched |-> TRUE, ok |-> TRUE, status |-> 200, json |-> TRUE,
     hasErrors |-> hasErrors, errors |-> errors, hasData |-> hasData,
     hasPairs |-> hasPairs, pairs |-> pairs]

Page(pairs) == Body(FALSE, <<>>, TRUE, TRUE, pairs)

(***************************************************************************)
(* fetchData, after the request was sent (lines 114-139): what the call    *)
(* returns or throws for the answer it received.                           *)
(***************************************************************************)
\* Mutant: `!result.data.pairs.length` also refuses an empty pairs list.
fetchDataRefusingEmpty(response) ==
    IF ~response.fetched
    THEN [ok |-> FALSE, pairs |-> <<>>,
          error |-> Error(<<"request failed">>)]
    ELSE IF ~response.ok
    THEN [ok |-> FALSE, pairs |-> <<>>,
          error |-> Error(<<"HTTP error: ", response.status>>)]
    ELSE IF ~response.json
    THEN [ok |-> FALSE, pairs |-> <<>>,
          error |-> Error(<<"invalid json response body">>)]
    ELSE IF response.hasErrors
    THEN [ok |-> FALSE, pairs |-> <<>>,
          error |-> Error(<<"GraphQL errors occurred: see logs for details.">>)]
    ELSE IF ~response.hasData \/ ~response.hasPairs \/ response.pairs = <<>>
    THEN [ok |-> FALSE, pairs |-> <<>>,
          error |-> Error(<<"No pairs data found.">>)]
    ELSE [ok |-> TRUE, pairs |-> response.pairs, error |-> NoError]

fetchData(response) ==
    IF ~response.fetched
    THEN [ok |-> FALSE, pairs |-> <<>>,
          error |-> Error(<<"request failed">>)]
    ELSE IF ~response.ok
    THEN [ok |-> FALSE, pairs |-> <<>>,
          error |-> Error(<<"HTTP error: ", response.status>>)]
    ELSE IF ~response.json
    THEN [ok |-> FALSE, pairs |-> <<>>,
          error |-> Error(<<"invalid json response body">>)]
    ELSE IF response.hasErrors
    THEN [ok |-> FALSE, pairs |-> <<>>,
          error |-> Error(<<"GraphQL errors occurred: see logs for details.">>)]
    ELSE IF ~response.hasData \/ ~response.hasPairs
    THEN [ok |-> FALSE, pairs |-> <<>>,
          error |-> Error(<<"No pairs data found.">>)]
    ELSE [ok |-> TRUE, pairs |-> response.pairs, error |-> NoError]

(***************************************************************************)
(* transformPairsToTags (lines 153-198).                                   *)
(***************************************************************************)
token0Invalid(pair) ==
    containsInvalidValue(pair.token0.name) \/
    containsInvalidValue(pair.token0.symbol)

\* Mutant: the symbol of token1 is not validated.
token1InvalidNameOnly(pair) == containsInvalidValue(pair.token1.name)

token1Invalid(pair) ==
    containsInvalidValue(pair.token1.name) \/
    containsInvalidValue(pair.token1.symbol)

\* The pairs pushed to validPairs, in order.
validPairs(pairs) ==
    SelectSeq(pairs, LAMBDA pair : ~(token0Invalid(pair) \/ token1Invalid(pair)))

ContractTag(id, pair) ==
    LET symbolsText == pair.token0.symbol \o <<"/">> \o pair.token1.symbol
        truncatedSymbolsText == truncateString(symbolsText, maxSymbolsLength)
    IN  [ContractAddress |-> <<"eip155:", id, ":", pair.id>>,
         PublicNameTag |-> <<truncatedSymbolsText, " Pool">>,
         ProjectName |-> "PancakeSwap v2",
         UIWebsiteLink |-> "https://pancakeswap.finance/",
         PublicNote |->
            <<"The liquidity pool contract on PancakeSwap v2 for the ",
              pair.token0.name, " (", pair.token0.symbol, ") / ",
              pair.token1.name, " (", pair.token1.symbol, ") pair.">>]

transformPairsToTags(id, pairs) ==
    LET valid == validPairs(pairs)
    IN  [i \in 1..Len(valid) |-> ContractTag(id, valid[i])]

(***************************************************************************)
(* The subgraph: GET_PAIRS_QUERY (lines 64-86) answered over a store that  *)
(* is ordered by ascending timestamp.                                      *)
(***************************************************************************)
RECURSIVE First(_, _)
First(n, s) ==
    IF n = 0 \/ s = <<>> THEN <<>> ELSE <<Head(s)>> \o First(n - 1, Tail(s))

\* Mutant: where: { timestamp_gte: $lastTimestamp }
GET_PAIRS_QUERY_gte(store, cursor) ==
    First(PageSize, SelectSeq(store, LAMBDA pair : pair.timestamp >= cursor))

\* pairs(first: PageSize, orderBy: timestamp, orderDirection: asc,
\*       where: { timestamp_gt: $lastTimestamp })
GET_PAIRS_QUERY(store, cursor) ==
    First(PageSize, SelectSeq(store, LAMBDA pair : pair.timestamp > cursor))

(***************************************************************************)
(* Inputs.                                                                 *)
(***************************************************************************)
USDCoin == <<"U", "S", "D", " ", "C", "o", "i", "n">>
USDC == <<"U", "S", "D", "C">>
CakeName == <<"C", "a", "k", "e">>
CAKE == <<"C", "A", "K", "E">>
EmptyText == <<>>
BlankText == <<" ", " ">>
BoldTag == <<"<", "b", ">">>
ScriptTag == <<"<", "s", "c", "r", "i", "p", "t", ">">>
ALessB == <<"A", "<", "B">>

\* Pairs an arbitrary endpoint answers with: accepted and rejected ones,
\* two of them with the same timestamp.
PairPool ==
    { Pair("0xa1", 9, PoolToken("0x01", USDCoin, USDC),
                      PoolToken("0x02", CakeName, CAKE)),
      Pair("0xa2", 10, PoolToken("0x03", EmptyText, USDC),
                       PoolToken("0x02", CakeName, CAKE)),
      Pair("0xa3", 10, PoolToken("0x01", USDCoin, USDC),
                       PoolToken("0x04", CakeName, BoldTag)),
      Pair("0xa4", 11, PoolToken("0x02", CakeName, CAKE),
                       PoolToken("0x01", USDCoin, USDC)) }

\* The i-th pair of a subgraph store: every third pair has a blank token0
\* symbol, every third a markup-bearing token1 name.
StoredPair(i, timestamp) ==
    Pair(<<"0x", i>>, timestamp,
         PoolToken("0x01", USDCoin, IF i % 3 = 2 THEN BlankText ELSE USDC),
         PoolToken("0x02", IF i % 3 = 0 THEN BoldTag ELSE CakeName, CAKE))

\* The largest store a sweep of MaxCalls requests reads to its end.
MaxStore == PageSize * MaxCalls - 1

\* Stores: pairs created at block timestamps 1..MaxTs (unix seconds are
\* positive), ordered by ascending timestamp, ties in id order.
Stores ==
    UNION { { [i \in 1..n |-> StoredPair(i, ts[i])] :
                ts \in { f \in [1..n -> 1..MaxTs] :
                            \A i \in 1..n, j \in 1..n : i <= j => f[i] <= f[j] } } :
            n \in 0..MaxStore }

\* Answers that make fetchData throw.
FailureResponses ==
    { NetworkFailure,
      HttpFailure(500),
      InvalidJson,
      Body(TRUE, <<"bad query">>, FALSE, FALSE, <<>>),
      Body(TRUE, <<>>, TRUE, TRUE, <<>>),
      Body(TRUE, <<"partial">>, TRUE, TRUE,
           <<Pair("0xa1", 9, PoolToken("0x01", USDCoin, USDC),
                             PoolToken("0x02", CakeName, CAKE))>>),
      Body(FALSE, <<>>, FALSE, FALSE, <<>>),
      Body(FALSE, <<>>, TRUE, FALSE, <<>>) }

\* Pages longer than the page size: one pair repeated.
OverlongPages == {[i \in 1..(PageSize + 1) |-> pair] : pair \in PairPool}

\* Answers of an endpoint that is not trusted to honour the query: any
\* sequence of pairs up to the page size, a longer one, or a failure.
AnyResponses ==
    {Page(pairs) : pairs \in SeqsUpTo(PairPool, PageSize) \cup OverlongPages}
    \cup FailureResponses

ApiKeys == {<<"k", "/", "9">>}

\* Chain identifiers: the registry's, a numeric one outside it, one that
\* equals a key only as a number, a word, an inherited property name and "".
ChainIdInputs ==
    DOMAIN SUBGRAPH_URLS \cup ObjectPrototypeKeys \cup
    {<<"5", "6">>, <<"0", "1">>, <<"a", "b", "c">>, <<>>}

\* Chain identifiers of the sweeps against an arbitrary endpoint.
SweepChainIds == {<<"1">>, <<"8", "4", "5", "3">>, <<"5", "6">>}

Alphabet == {"A", " ", "\t", "<", ">"}

Texts ==
    SeqsUpTo(Alphabet, MaxTextLen) \cup
    {USDCoin, USDC, CakeName, CAKE, BoldTag, ScriptTag, ALessB}

(***************************************************************************)
(* returnTags (lines 201-231).                                             *)
(***************************************************************************)
Pending == [settled |-> "pending", value |-> <<>>, reason |-> NoError]

Fulfilled(tags) == [settled |-> "fulfilled", value |-> tags, reason |-> NoError]

Rejected(error) == [settled |-> "rejected", value |-> <<>>, reason |-> error]

\* isError (lines 88-95): every value thrown in the model is an Error.
isError(e) == e.name # ""

\* Mutant: the pairs are counted after validation.
morePagesOfValid(pairs) == Len(validPairs(pairs)) = PageSize

\* isMore = pairs.length === 1000 (line 216)
morePages(pairs) == Len(pairs) = PageSize

\* Mutant: the cursor is taken from the last pair that passed validation.
nextTimestampOfValid(pairs) ==
    IF validPairs(pairs) = <<>> THEN 0
    ELSE parseInt(toString(Last(validPairs(pairs)).timestamp))

\* Mutant: lastTimestamp is never assigned and stays at its initial value.
nextTimestampUnset(pairs) == 0

\* parseInt(pairs[pairs.length - 1].timestamp.toString(), 10) (line 218)
nextTimestamp(pairs) == parseInt(toString(Last(pairs).timestamp))

\* The catch block (lines 220-228): what returnTags throws.
rethrow(error) ==
    IF isError(error)
    THEN Error(<<"Failed fetching data: ", error>>)
    ELSE Error(<<"An unknown error occurred during fetch operation.">>)

\* Mutant: the catch block logs the error and returns what was gathered.
iterationKeepingPartial(id, fetched, tags, cursor) ==
    IF fetched.ok
    THEN LET pairs == fetched.pairs
             grown == tags \o transformPairsToTags(id, pairs)
             more == morePages(pairs)
         IN  [allTags |-> grown,
              isMore |-> more,
              lastTimestamp |-> IF more THEN nextTimestamp(pairs) ELSE cursor,
              pc |-> IF more THEN "loop" ELSE "done",
              result |-> IF more THEN Pending ELSE Fulfilled(grown)]
    ELSE [allTags |-> tags,
          isMore |-> FALSE,
          lastTimestamp |-> cursor,
          pc |-> "done",
          result |-> Fulfilled(tags)]

\* One pass of the loop body once fetchData settled (lines 213-230): the
\* locals after it, where the call stands and what it settled with.
iteration(id, fetched, tags, cursor) ==
    IF fetched.ok
    THEN LET pairs == fetched.pairs
             grown == tags \o transformPairsToTags(id, pairs)
             more == morePages(pairs)
         IN  [allTags |-> grown,
              isMore |-> more,
              lastTimestamp |-> IF more THEN nextTimestamp(pairs) ELSE cursor,
              pc |-> IF more THEN "loop" ELSE "done",
              result |-> IF more THEN Pending ELSE Fulfilled(grown)]
    ELSE [allTags |-> tags,
          isMore |-> TRUE,
          lastTimestamp |-> cursor,
          pc |-> "failed",
          result |-> Rejected(rethrow(fetched.error))]

\* State right after `const url = prepareUrl(...)` was reached.
Locals ==
    /\ pc = "start"
    /\ url = <<>>
    /\ lastTimestamp = 0
    /\ allTags = <<>>
    /\ isMore = TRUE
    /\ calls = <<>>
    /\ responses = <<>>
    /\ result = Pending
    /\ apiKey \in ApiKeys
    /\ text = <<>>
    /\ verdict = "unchecked"

\* A call against an endpoint that answers anything.
Init ==
    /\ chainId \in SweepChainIds
    /\ db = <<>>
    /\ Locals

\* A call against a subgraph that holds a store and honours the query.
ServerInit ==
    /\ chainId \in ChainIdInputs
    /\ db \in Stores
    /\ Locals

\* const url = prepareUrl(chainId, apiKey): thrown outside the try block.
Start ==
    /\ pc = "start"
    /\ LET prepared == prepareUrl(chainId, apiKey)
       IN  IF prepared.ok
           THEN /\ url' = prepared.url
                /\ pc' = "loop"
                /\ UNCHANGED result
           ELSE /\ pc' = "failed"
                /\ result' = Rejected(prepared.error)
                /\ UNCHANGED url
    /\ UNCHANGED <<chainId, apiKey, lastTimestamp, allTags, isMore, calls,
                   responses, db, text, verdict>>

\* while (isMore): fetchData sends the request and awaits the answer.
Call ==
    /\ pc = "loop"
    /\ isMore
    /\ Len(calls) < MaxCalls
    /\ calls' = Append(calls, [url |-> url, lastTimestamp |-> lastTimestamp])
    /\ pc' = "awaiting"
    /\ UNCHANGED <<chainId, apiKey, url, lastTimestamp, allTags, isMore,
                   responses, result, db, text, verdict>>

\* The awaited answer arrives and the loop body runs to its next await,
\* to the return or to the throw.
Deliver(response) ==
    /\ pc = "awaiting"
    /\ responses' = Append(responses, response)
    /\ LET after == iteration(chainId, fetchData(response), allTags,
                              lastTimestamp)
       IN  /\ allTags' = after.allTags
           /\ isMore' = after.isMore
           /\ lastTimestamp' = after.lastTimestamp
           /\ pc' = after.pc
           /\ result' = after.result
    /\ UNCHANGED <<chainId, apiKey, url, calls, db, text, verdict>>

Respond == \E response \in AnyResponses : Deliver(response)

\* The subgraph answers the request in flight, or the request fails.
ServerResponses ==
    IF pc = "awaiting"
    THEN {Page(GET_PAIRS_QUERY(db, Last(calls).lastTimestamp))} \cup
         FailureResponses
    ELSE {}

ServerRespond == \E response \in ServerResponses : Deliver(response)

Next == Start \/ Call \/ Respond

ServerNext == Start \/ Call \/ ServerRespond

Spec == Init /\ [][Next]_vars

ServerSpec == ServerInit /\ [][ServerNext]_vars

\* Every request is eventually answered, and the single thread of the call
\* keeps running between awaits.
FairServerSpec == ServerSpec /\ WF_vars(ServerNext)

(***************************************************************************)
(* containsInvalidValue applied to one text.                               *)
(***************************************************************************)
TextInit ==
    /\ text \in Texts
    /\ verdict = "unchecked"
    /\ chainId = <<>>
    /\ apiKey = <<>>
    /\ pc = "idle"
    /\ url = <<>>
    /\ lastTimestamp = 0
    /\ allTags = <<>>
    /\ isMore = TRUE
    /\ calls = <<>>
    /\ responses = <<>>
    /\ result = Pending
    /\ db = <<>>

CheckText ==
    /\ verdict = "unchecked"
    /\ verdict' = IF containsInvalidValue(text) THEN "invalid" ELSE "valid"
    /\ UNCHANGED <<chainId, apiKey, pc, url, lastTimestamp, allTags, isMore,
                   calls, responses, result, db, text>>

TextNext == CheckText

TextSpec == TextInit /\ [][TextNext]_vars

(***************************************************************************)
(* Properties.                                                             *)
(***************************************************************************)
\* An answer fetchData returns pairs for, read off the answer itself.
Usable(r) ==
    r.fetched /\ r.ok /\ r.json /\ ~r.hasErrors /\ r.hasData /\ r.hasPairs

\* The raw pages fetched so far, in order (a failed request fetched none).
RawPages ==
    [k \in 1..Len(responses) |->
        IF Usable(responses[k]) THEN responses[k].pairs ELSE <<>>]

Ended == pc \in {"done", "failed"}

\* C1: after each successful fetch another request follows if and only if
\* the page held exactly PageSize raw pairs, whatever validation made of
\* them; a smaller (or empty) page ends the call in "done", so a finished
\* sweep made one request per full page plus one, and a first page of size
\* 0 gives one request and an empty result.
C1_ContinueIffFullPage ==
    /\ \A k \in 1..Len(responses) :
          Usable(responses[k]) =>
             /\ Len(responses[k].pairs) = PageSize =>
                   \/ k < Len(calls)
                   \/ k = Len(calls) /\ pc = "loop" /\ isMore
                        /\ (Len(calls) < MaxCalls => ENABLED Call)
             /\ Len(responses[k].pairs) # PageSize =>
                   k = Len(calls) /\ pc = "done" /\ ~ENABLED Call
    /\ pc = "done" =>
          /\ Len(calls) = Len(responses)
          /\ \A k \in 1..Len(responses) :
                /\ Usable(responses[k])
                /\ k < Len(responses) => Len(responses[k].pairs) = PageSize
          /\ Len(Last(responses).pairs) # PageSize
    /\ (Len(responses) >= 1 /\ responses[1] = Page(<<>>)) =>
          Len(calls) = 1 /\ result = Fulfilled(<<>>)

\* Pages of sizes [PageSize, PageSize, 1], the first one rejected whole.
C1_Witness ==
    /\ pc = "done"
    /\ Len(calls) = 3
    /\ Len(responses[1].pairs) = PageSize
    /\ validPairs(responses[1].pairs) = <<>>
    /\ Len(responses[2].pairs) = PageSize
    /\ Len(responses[3].pairs) = 1

\* C2: the first request carries cursor 0 and every later one the
\* timestamp of the last raw pair of the page before it, rejected or not.
C2_CursorIsLastRawTimestamp ==
    /\ Len(calls) >= 1 => calls[1].lastTimestamp = 0
    /\ \A k \in 2..Len(calls) :
          calls[k].lastTimestamp = Last(responses[k - 1].pairs).timestamp

C2_Witness ==
    /\ Len(calls) = 3
    /\ validPairs(<<Last(responses[1].pairs)>>) = <<>>
    /\ validPairs(responses[1].pairs) # <<>>
    /\ calls[2].lastTimestamp = 10
    /\ calls[3].lastTimestamp = 11

\* The pairs at the ends of the full pages fetched so far do not share
\* their timestamp with the pair that follows them in the store.
NoTieAtPageBoundary ==
    \A k \in 1..Len(responses) :
        (Usable(responses[k]) /\ Len(responses[k].pairs) = PageSize) =>
            LET i == Last(responses[k].pairs).id[2]
            IN  i < Len(db) => db[i + 1].timestamp # db[i].timestamp

\* C3: against a subgraph that holds a store and honours the query, a call
\* that completes has fetched every stored pair exactly once, in order,
\* provided no page boundary fell between two pairs of equal timestamp.
C3_EveryPairOnce ==
    (pc = "done" /\ NoTieAtPageBoundary) => Flatten(RawPages) = db

\* Three pages, with a tie inside a page.
C3_Witness ==
    /\ pc = "done"
    /\ NoTieAtPageBoundary
    /\ Len(calls) = 3
    /\ Len(db) = 5
    /\ db[1].timestamp = db[2].timestamp

\* C4: a failed fetch fails the call at once: it is the last request, and
\* the call rejects without tags, also the ones of earlier pages; a call
\* either fulfils with all accumulated tags in "done" or rejects.
C4_FailureAbortsWithoutTags ==
    /\ \A k \in 1..Len(responses) :
          ~Usable(responses[k]) =>
             /\ k = Len(responses)
             /\ k = Len(calls)
             /\ pc = "failed"
             /\ result.settled = "rejected"
    /\ pc = "failed" => ~ENABLED Call
    /\ result.settled = "rejected" <=> pc = "failed"
    /\ result.settled = "rejected" => result.value = <<>>
    /\ result.settled = "fulfilled" <=> pc = "done"
    /\ result.settled = "fulfilled" =>
          /\ result.value = allTags
          /\ \A k \in 1..Len(responses) : Usable(responses[k])

\* The second request fails after the first page gave tags.
C4_Witness ==
    /\ Len(responses) = 2
    /\ ~Usable(responses[2])
    /\ allTags # <<>>
    /\ result.settled = "rejected"
    /\ result.value = <<>>

Blank(t) == \A i \in 1..Len(t) : t[i] \in WhiteSpace

HasTag(t) == \E i \in 1..Len(t), j \in 1..Len(t) : i < j /\ t[i] = "<" /\ t[j] = ">"

Acceptable(pair) ==
    \A t \in {pair.token0.name, pair.token0.symbol,
              pair.token1.name, pair.token1.symbol} : ~Blank(t) /\ ~HasTag(t)

\* C5: at every point of a call allTags holds exactly one tag for every raw
\* pair fetched so far whose four token texts are all valid, in page order
\* and within-page order, and no tag for any other pair.
C5_TagsAreTheValidPairs ==
    LET kept == SelectSeq(Flatten(RawPages), Acceptable)
    IN  /\ Len(allTags) = Len(kept)
        /\ \A i \in 1..Len(kept) :
              /\ allTags[i].ContractAddress = <<"eip155:", chainId, ":", kept[i].id>>
              /\ allTags[i].PublicNote[2] = kept[i].token0.name
              /\ allTags[i].PublicNote[4] = kept[i].token0.symbol
              /\ allTags[i].PublicNote[6] = kept[i].token1.name
              /\ allTags[i].PublicNote[8] = kept[i].token1.symbol

\* Two pages with a rejected pair between two different accepted ones.
C5_Witness ==
    /\ Len(responses) = 2
    /\ Len(Flatten(RawPages)) = 4
    /\ Len(allTags) = 2
    /\ allTags[1].ContractAddress # allTags[2].ContractAddress
    /\ ~Acceptable(Flatten(RawPages)[2])
    /\ ~Acceptable(Flatten(RawPages)[3])

\* The items of a ", "-separated list.
RECURSIVE SplitList(_, _)
SplitList(s, item) ==
    IF s = <<>> THEN <<item>>
    ELSE IF Len(s) >= 2 /\ s[1] = "," /\ s[2] = " "
    THEN <<item>> \o SplitList(SubSeq(s, 3, Len(s)), <<>>)
    ELSE SplitList(Tail(s), Append(item, Head(s)))

RegistryIds ==
    { <<"1">>, <<"3", "2", "4">>, <<"1", "1", "0", "1">>,
      <<"8", "4", "5", "3">>, <<"4", "2", "1", "6", "1">>,
      <<"5", "9", "1", "4", "4">> }

NotNumeric(id) == \E i \in 1..Len(id) : id[i] \notin DigitChars \cup WhiteSpace

UnsupportedChain ==
    /\ result.settled = "rejected"
    /\ result.reason.message[1] = UnsupportedChainMessage

\* C6: for a chain identifier outside the registry, or not numeric, the
\* call rejects with the unsupported-chain error, whose message lists every
\* registry identifier, and no request is ever sent; for every identifier
\* of the registry the URL is resolved.
C6_UnsupportedChainFailsFast ==
    /\ DOMAIN SUBGRAPH_URLS = RegistryIds
    /\ (chainId \notin RegistryIds \/ NotNumeric(chainId)) =>
          /\ calls = <<>>
          /\ ~ENABLED Call
          /\ pc # "start" =>
                /\ pc = "failed"
                /\ UnsupportedChain
                /\ result.reason.message[2] = chainId
                /\ LET listed == SplitList(result.reason.message[4], <<>>)
                   IN  /\ {listed[i] : i \in 1..Len(listed)} = RegistryIds
                       /\ Len(listed) = Cardinality(RegistryIds)
    /\ (chainId \in RegistryIds /\ pc # "start") =>
          /\ ~UnsupportedChain
          /\ url # <<>>
          /\ url[2] = encodeURIComponent(apiKey)

\* A name every object inherits is looked up and found, and is refused.
C6_Witness ==
    /\ chainId \in ObjectPrototypeKeys
    /\ pc = "failed"
    /\ UnsupportedChain
    /\ calls = <<>>

MissingData ==
    /\ result.settled = "rejected"
    /\ result.reason.message[1] = "Failed fetching data: "
    /\ result.reason.message[2].message = <<"No pairs data found.">>

\* C7: a fetch fails with the missing-data error exactly when the answer
\* is a 2xx response without errors list that lacks data or data.pairs; an
\* answer whose pairs list is present and empty is a page of zero pairs,
\* which ends the sweep with the tags accumulated so far.
C7_MissingDataIsNotEmptyPage ==
    responses # <<>> =>
        LET r == Last(responses)
        IN  /\ MissingData <=>
                  /\ r.fetched /\ r.ok /\ r.json
                  /\ ~r.hasErrors
                  /\ ~r.hasData \/ ~r.hasPairs
            /\ (Usable(r) /\ r.pairs = <<>>) =>
                  /\ pc = "done"
                  /\ result = Fulfilled(allTags)

\* An empty page after a full page that gave tags.
C7_Witness ==
    /\ Len(responses) = 2
    /\ responses[2] = Page(<<>>)
    /\ allTags # <<>>
    /\ result = Fulfilled(allTags)

\* C8 as stated: a text is invalid exactly when it trims to nothing or holds
\* a <...> substring; "USD Coin" is valid; "", a blank text, "<script>" and
\* "A<B" are invalid.
C8_AsStated ==
    verdict # "unchecked" =>
        /\ (Blank(text) \/ HasTag(text)) => verdict = "invalid"
        /\ (~Blank(text) /\ \A i \in 1..Len(text) : text[i] # "<") =>
              verdict = "valid"
        /\ text = USDCoin => verdict = "valid"
        /\ text \in {EmptyText, BlankText, ScriptTag, ALessB} => verdict = "invalid"

\* C8, amended: a text is invalid exactly when it trims to nothing or holds
\* a "<" with a ">" somewhere after it; "USD Coin" is valid; "", a blank
\* text and "<script>" are invalid; "A<B", which has no ">", is valid.
C8_IsValid ==
    verdict # "unchecked" =>
        /\ verdict = "invalid" <=> (Blank(text) \/ HasTag(text))
        /\ text = USDCoin => verdict = "valid"
        /\ text \in {EmptyText, BlankText, ScriptTag} => verdict = "invalid"
        /\ text = ALessB => verdict = "valid"

C8_Witness == text = ALessB /\ verdict = "valid"

\* Every pair of every page fetched so far is newer than the cursor of the
\* request that fetched it.
FilterHonoured ==
    \A k \in 1..Len(responses) :
        \A i \in 1..Len(RawPages[k]) :
            RawPages[k][i].timestamp > calls[k].lastTimestamp

\* C9: as long as the endpoint honours the filter, the cursors of the
\* successive requests of a call strictly increase.
C9_CursorsIncrease ==
    FilterHonoured =>
        \A j \in 1..Len(calls), k \in 1..Len(calls) :
            j < k => calls[j].lastTimestamp < calls[k].lastTimestamp

C9_Witness ==
    /\ FilterHonoured
    /\ Len(calls) = 3
    /\ Len(responses) = 3
    /\ \A k \in 1..3 : Usable(responses[k])

\* C10: against a subgraph with a finite store that honours the query,
\* with every request eventually answered, every call ends, in "done" or in
\* failure, also when many pairs share one timestamp.
C10_CallEnds == <>Ended

\* A sweep over a store of pairs that all share one timestamp.
C10_Witness ==
    /\ pc = "done"
    /\ Len(db) = MaxStore
    /\ db[1].timestamp = db[Len(db)].timestamp
    /\ Len(calls) = 2

====
